---- MODULE Spec2Model ----
(***************************************************************************)
(* GoodPDF: the page budget, the content fitting engine (block weights,   *)
(* the trim-and-scale fit pass, the greedy pagination pass) and the        *)
(* generation lifecycle of the GoodPDF component.                          *)
(*                                                                         *)
(* Numbers are integers.  The source computes in IEEE doubles; for the     *)
(* integer weights and capacities that occur, w > c * 1.1 is 10w > 11c,    *)
(* w <= c * 1.05 is 100w <= 105c, w / c < 0.7 is 10w < 7c, and             *)
(* ceil(n * 0.8 + 30) is ceil((4n + 150) / 5).  A scale factor is kept in  *)
(* hundredths (0.88 -> 88, 1.0 -> 100, 1.12 -> 112).                       *)
(***************************************************************************)
EXTENDS Integers, Sequences, FiniteSets, TLC

VARIABLES
    pc,            \* which operation of the specification has run
    targetPages,   \* argument of calculatePageBudget
    budget,        \* its result
    blocksGiven,   \* FALSE: the block list argument is null / undefined
    allBlocks,     \* the block list argument
    contentPages,  \* the contentPages argument
    scaleArg,      \* the scale argument of paginateContent
    fit,           \* result of optimizeContentToFit
    fit2,          \* result of optimizeContentToFit on fit.blocks
    pages,         \* result of paginateContent
    step,          \* GoodPDF state: SETUP, ARCHITECTING, WRITING, FINISHED
    config,        \* GoodPDF state: topic (set or empty) and pages
    architecture,  \* GoodPDF state: the accepted outline with its budget
    pageData,      \* GoodPDF state: the content pages shown
    layoutMetrics, \* GoodPDF state: the scale in use
    runs,          \* the handleStart / writeAll invocations, in start order
    weightOut,     \* results of getBlockWeight on the blocks of allBlocks
    sizeArg,       \* the size argument of resolvePageSize
    dpiArg,        \* the dpi argument of resolvePageSize / renderPDFDocument
    sizeOut,       \* result of resolvePageSize
    source,        \* the TextoraDoc argument of buildPdfDocumentFromTextora
    pdfDoc,        \* its result
    doc,           \* the document argument of renderPDFDocument
    rendered,      \* the backend calls of a render and its outcome
    jsPdf          \* the jsPDF document a JsPdfContext holds, and its state

pureVars == <<pc, targetPages, budget, blocksGiven, allBlocks, contentPages,
              scaleArg, fit, fit2, pages>>
appVars == <<step, config, architecture, pageData, layoutMetrics, runs>>
extVars == <<weightOut, sizeArg, dpiArg, sizeOut, source, pdfDoc, doc, rendered,
             jsPdf>>
vars == <<pureVars, appVars, extVars>>

(***************************************************************************)
(* Bounds                                                                  *)
(***************************************************************************)
MaxTarget == 60
MaxLen == 3
MaxContentPages == 3
MaxStarts == 2
MaxPageOpt == 2
MaxAISections == 1
MaxWords == 12
MaxLength == 3
MaxSourceSize == 4
MaxDocSize == 4
MaxBackendCalls == 5

(***************************************************************************)
(* Arithmetic helpers                                                      *)
(***************************************************************************)
Max(a, b) == IF a >= b THEN a ELSE b
Min(a, b) == IF a <= b THEN a ELSE b
CeilDiv(a, b) == (a + b - 1) \div b

(***************************************************************************)
(* Content blocks.  A block has a type tag and a text; the text is kept as *)
(* the number of whitespace-separated words it holds, or is missing.       *)
(* A null entry of a block list is NullBlock.                              *)
(***************************************************************************)
NoText == [missing |-> TRUE, words |-> 0]
Text(n) == [missing |-> FALSE, words |-> n]
Block(t, txt) == [type |-> t, text |-> txt]
NullBlock == Block("null", NoText)
Truthy(block) == block # NullBlock

\* trim, split on whitespace, drop empty pieces, count; 0 for a falsy value
countWords(val) == IF val.missing \/ val.words = 0 THEN 0 ELSE val.words

WORDS_PER_PAGE == 280
PAGE_CAPACITY == 850

calculatePageBudget_lateTOC(tp) ==
    LET hasTOC == tp > 5
        tocPages == IF hasTOC THEN 1 ELSE 0
        reservedPages == 1 + tocPages
        cp == Max(1, tp - reservedPages)
        totalWordBudget == cp * WORDS_PER_PAGE
        sectionCount == Min(Max(2, (cp * 12) \div 10), 15)
    IN [targetPages |-> tp, contentPages |-> cp, tocPages |-> tocPages,
        hasTOC |-> hasTOC, sectionCount |-> sectionCount,
        totalWordBudget |-> totalWordBudget,
        wordsPerSection |-> totalWordBudget \div sectionCount,
        wordsPerPage |-> WORDS_PER_PAGE]

calculatePageBudget_uncapped(tp) ==
    LET hasTOC == tp >= 5
        tocPages == IF hasTOC THEN 1 ELSE 0
        reservedPages == 1 + tocPages
        cp == Max(1, tp - reservedPages)
        totalWordBudget == cp * WORDS_PER_PAGE
        sectionCount == Max(2, (cp * 12) \div 10)
    IN [targetPages |-> tp, contentPages |-> cp, tocPages |-> tocPages,
        hasTOC |-> hasTOC, sectionCount |-> sectionCount,
        totalWordBudget |-> totalWordBudget,
        wordsPerSection |-> totalWordBudget \div sectionCount,
        wordsPerPage |-> WORDS_PER_PAGE]

calculatePageBudget(tp) ==
    LET hasTOC == tp >= 5
        tocPages == IF hasTOC THEN 1 ELSE 0
        reservedPages == 1 + tocPages
        cp == Max(1, tp - reservedPages)
        totalWordBudget == cp * WORDS_PER_PAGE
        sectionCount == Min(Max(2, (cp * 12) \div 10), 15)
    IN [targetPages |-> tp, contentPages |-> cp, tocPages |-> tocPages,
        hasTOC |-> hasTOC, sectionCount |-> sectionCount,
        totalWordBudget |-> totalWordBudget,
        wordsPerSection |-> totalWordBudget \div sectionCount,
        wordsPerPage |-> WORDS_PER_PAGE]

(***************************************************************************)
(* getBlockWeight.  The weights table is indexed by block.type; a type it  *)
(* does not hold (or a missing type) falls through to 80.                  *)
(***************************************************************************)
WeightTable_swapped(block) ==
    [h2 |-> 100, h3 |-> 70,
     p |-> CeilDiv(countWords(block.text) * 4 + 150, 5),
     image_prompt |-> 320, stat |-> 180, key_term |-> 200,
     case_study |-> 280, table |-> 250, takeaway |-> 100, quote |-> 120]

WeightTable(block) ==
    [h2 |-> 100, h3 |-> 70,
     p |-> CeilDiv(countWords(block.text) * 4 + 150, 5),
     image_prompt |-> 320, stat |-> 200, key_term |-> 180,
     case_study |-> 280, table |-> 250, takeaway |-> 100, quote |-> 120]

getBlockWeight(block) ==
    IF ~Truthy(block) THEN 0
    ELSE IF block.type \in DOMAIN WeightTable(block)
         THEN WeightTable(block)[block.type]
         ELSE 80

\* reading a property (block.text, block.type) of null is a TypeError
DerefThrows(block) == block = NullBlock

getBlockWeightThrows_noGuard(block) == DerefThrows(block)

\* getBlockWeight returns before it reads a property of a falsy block
getBlockWeightThrows(block) ==
    IF ~Truthy(block) THEN FALSE ELSE DerefThrows(block)

RECURSIVE SumWeights(_)
SumWeights(blocks) ==
    IF blocks = <<>> THEN 0
    ELSE getBlockWeight(Head(blocks)) + SumWeights(Tail(blocks))

(***************************************************************************)
(* optimizeContentToFit                                                    *)
(***************************************************************************)
removalPriority == <<"quote", "takeaway", "stat", "key_term", "image_prompt">>

OverTrimThreshold_100(w, cap) == w > cap

\* currentWeight > TOTAL_CAPACITY * 1.1
OverTrimThreshold(w, cap) == w * 10 > cap * 11

WithinTarget_110(w, cap) == w * 100 <= cap * 110

\* currentWeight <= TOTAL_CAPACITY * 1.05
WithinTarget(w, cap) == w * 100 <= cap * 105

\* blocks[i]?.type
TypeOf(block) == IF Truthy(block) THEN block.type ELSE "undefined"

RemoveAt_noSubtract(st, i) ==
    [blocks |-> [st.blocks EXCEPT ![i] = NullBlock],
     w |-> st.w,
     log |-> Append(st.log, [i |-> i, block |-> st.blocks[i],
                             running |-> st.w,
                             present |-> SumWeights(st.blocks)])]

\* currentWeight -= getBlockWeight(blocks[i]); blocks[i] = null.  log is a
\* history of the removals: position, block, the running weight and the
\* weight of the blocks present, both taken just before the removal.
RemoveAt(st, i) ==
    [blocks |-> [st.blocks EXCEPT ![i] = NullBlock],
     w |-> st.w - getBlockWeight(st.blocks[i]),
     log |-> Append(st.log, [i |-> i, block |-> st.blocks[i],
                             running |-> st.w,
                             present |-> SumWeights(st.blocks)])]

\* for (let i = blocks.length - 1; i >= 0; i--) for one type
RECURSIVE ScanType(_, _, _, _)
ScanType(st, cap, type, i) ==
    IF i = 0 THEN st
    ELSE IF TypeOf(st.blocks[i]) = type
         THEN LET st2 == RemoveAt(st, i)
              IN IF WithinTarget(st2.w, cap) THEN st2
                 ELSE ScanType(st2, cap, type, i - 1)
         ELSE ScanType(st, cap, type, i - 1)

RECURSIVE ScanTypeFromStart(_, _, _, _)
ScanTypeFromStart(st, cap, type, i) ==
    IF i > Len(st.blocks) THEN st
    ELSE IF TypeOf(st.blocks[i]) = type
         THEN LET st2 == RemoveAt(st, i)
              IN IF WithinTarget(st2.w, cap) THEN st2
                 ELSE ScanTypeFromStart(st2, cap, type, i + 1)
         ELSE ScanTypeFromStart(st, cap, type, i + 1)

TrimType_fromStart(st, cap, type) == ScanTypeFromStart(st, cap, type, 1)

TrimType(st, cap, type) == ScanType(st, cap, type, Len(st.blocks))

\* for (const type of removalPriority)
RECURSIVE TrimPriority(_, _, _)
TrimPriority(st, cap, k) ==
    IF k > Len(removalPriority) \/ WithinTarget(st.w, cap) THEN st
    ELSE TrimPriority(TrimType(st, cap, removalPriority[k]), cap, k + 1)

\* the positions of the paragraphs, sorted by weight, heaviest first
\* (Array.prototype.sort is stable: equal weights keep position order)
RECURSIVE SortParagraphs(_, _)
SortParagraphs(blocks, S) ==
    IF S = {} THEN <<>>
    ELSE LET m == CHOOSE i \in S : \A j \in S :
                      \/ getBlockWeight(blocks[i]) > getBlockWeight(blocks[j])
                      \/ /\ getBlockWeight(blocks[i]) = getBlockWeight(blocks[j])
                         /\ i <= j
         IN <<m>> \o SortParagraphs(blocks, S \ {m})

Paragraphs(blocks) ==
    SortParagraphs(blocks, {i \in DOMAIN blocks :
                               Truthy(blocks[i]) /\ blocks[i].type = "p"})

\* for (const p of paragraphs)
RECURSIVE RemoveParagraphs(_, _, _, _)
RemoveParagraphs(st, cap, order, k) ==
    IF k > Len(order) \/ WithinTarget(st.w, cap) THEN st
    ELSE RemoveParagraphs(RemoveAt(st, order[k]), cap, order, k + 1)

TrimParagraphs(st, cap) ==
    IF ~WithinTarget(st.w, cap)
    THEN RemoveParagraphs(st, cap, Paragraphs(st.blocks), 1)
    ELSE st

\* blocks.filter(b => b !== null)
RECURSIVE FilterNull(_)
FilterNull(blocks) ==
    IF blocks = <<>> THEN <<>>
    ELSE IF Head(blocks) = NullBlock THEN FilterNull(Tail(blocks))
         ELSE <<Head(blocks)>> \o FilterNull(Tail(blocks))

ScaleFor_inclusive(w, cap) ==
    IF w > cap THEN 88 ELSE IF w * 10 <= cap * 7 THEN 112 ELSE 100

\* utilizationRatio > 1.0 -> 0.88, < 0.7 -> 1.12, else 1.0
ScaleFor(w, cap) ==
    IF w > cap THEN 88 ELSE IF w * 10 < cap * 7 THEN 112 ELSE 100

EmptyFit ==
    [blocks |-> <<>>, scale |-> 100, hasMetrics |-> FALSE, totalWeight |-> 0,
     capacity |-> 0, blockCount |-> 0, trimmed |-> FALSE, log |-> <<>>,
     threw |-> FALSE]

\* the fit pass written without its two guards: it trims whenever the
\* content is over capacity and tests the target only after a removal
optimizeContentToFit_eager(given, blocks0, cp) ==
    IF ~given \/ Len(blocks0) = 0 THEN EmptyFit
    ELSE
    LET cap == cp * PAGE_CAPACITY
        st0 == [blocks |-> blocks0, w |-> SumWeights(blocks0), log |-> <<>>]
        trim == st0.w > cap
        RECURSIVE Eager(_, _)
        Eager(st, k) ==
            IF k > Len(removalPriority) THEN st
            ELSE LET st2 == TrimType(st, cap, removalPriority[k])
                 IN IF st2.log # st.log THEN st2 ELSE Eager(st2, k + 1)
        st2 == IF trim THEN Eager(st0, 1) ELSE st0
        out == IF trim THEN FilterNull(st2.blocks) ELSE blocks0
        w == IF trim THEN SumWeights(out) ELSE st0.w
    IN [blocks |-> out, scale |-> ScaleFor(w, cap), hasMetrics |-> TRUE,
        totalWeight |-> w, capacity |-> cap, blockCount |-> Len(out),
        trimmed |-> trim, log |-> st2.log, threw |-> FALSE]

optimizeContentToFit(given, blocks0, cp) ==
    IF ~given \/ Len(blocks0) = 0 THEN EmptyFit
    ELSE
    LET cap == cp * PAGE_CAPACITY
        st0 == [blocks |-> blocks0, w |-> SumWeights(blocks0), log |-> <<>>]
        trim == OverTrimThreshold(st0.w, cap)
        st2 == IF trim THEN TrimParagraphs(TrimPriority(st0, cap, 1), cap)
               ELSE st0
        out == IF trim THEN FilterNull(st2.blocks) ELSE blocks0
        w == IF trim THEN SumWeights(out) ELSE st0.w
    IN [blocks |-> out, scale |-> ScaleFor(w, cap), hasMetrics |-> TRUE,
        totalWeight |-> w, capacity |-> cap, blockCount |-> Len(out),
        trimmed |-> trim, log |-> st2.log,
        threw |-> \E i \in DOMAIN blocks0 : getBlockWeightThrows(blocks0[i])]

(***************************************************************************)
(* paginateContent                                                         *)
(***************************************************************************)
placeholderContent ==
    <<Block("h2", Text(2)), Block("p", Text(29)), Block("p", Text(20)),
      Block("key_term", NoText)>>

OverPage_unscaled(w, scale) == w > PAGE_CAPACITY

\* currentWeight + weight > BASE_CAPACITY / scale
OverPage(w, scale) == w * scale > PAGE_CAPACITY * 100

RECURSIVE Greedy_noGuard(_, _, _, _, _)
Greedy_noGuard(blocks, cp, scale, i, st) ==
    IF i > Len(blocks) THEN st
    ELSE LET weight == getBlockWeight(blocks[i])
         IN IF OverPage(st.currentWeight + weight, scale)
            THEN Greedy_noGuard(blocks, cp, scale, i + 1,
                        [pages |-> Append(st.pages, st.currentPage),
                         currentPage |-> <<blocks[i]>>,
                         currentWeight |-> weight])
            ELSE Greedy_noGuard(blocks, cp, scale, i + 1,
                        [pages |-> st.pages,
                         currentPage |-> Append(st.currentPage, blocks[i]),
                         currentWeight |-> st.currentWeight + weight])

\* the for loop over the blocks
RECURSIVE Greedy(_, _, _, _, _)
Greedy(blocks, cp, scale, i, st) ==
    IF i > Len(blocks) THEN st
    ELSE LET weight == getBlockWeight(blocks[i])
         IN IF OverPage(st.currentWeight + weight, scale)
               /\ Len(st.pages) < cp - 1
            THEN Greedy(blocks, cp, scale, i + 1,
                        [pages |-> Append(st.pages, st.currentPage),
                         currentPage |-> <<blocks[i]>>,
                         currentWeight |-> weight])
            ELSE Greedy(blocks, cp, scale, i + 1,
                        [pages |-> st.pages,
                         currentPage |-> Append(st.currentPage, blocks[i]),
                         currentWeight |-> st.currentWeight + weight])

\* the pages after the loop and the push of the remaining content
ContentPagesOf(blocks, cp, scale) ==
    LET st == Greedy(blocks, cp, scale, 1,
                     [pages |-> <<>>, currentPage |-> <<>>, currentWeight |-> 0])
    IN IF Len(st.currentPage) > 0 THEN Append(st.pages, st.currentPage)
       ELSE st.pages

PadPages_none(ps, cp) == ps

PadPages_once(ps, cp) ==
    IF Len(ps) < cp THEN Append(ps, placeholderContent) ELSE ps

\* while (pages.length < contentPages) pages.push(placeholderContent)
RECURSIVE PadPages(_, _)
PadPages(ps, cp) ==
    IF Len(ps) < cp THEN PadPages(Append(ps, placeholderContent), cp) ELSE ps

\* pages.slice(0, contentPages)
Slice(ps, cp) == SubSeq(ps, 1, Min(Len(ps), cp))

paginateContent(given, blocks, cp, scale) ==
    IF ~given \/ Len(blocks) = 0 THEN [i \in 1..cp |-> <<>>]
    ELSE Slice(PadPages(ContentPagesOf(blocks, cp, scale), cp), cp)

(***************************************************************************)
(* Inputs of the pure functions                                            *)
(***************************************************************************)
Scales == {88, 100, 112}

BlockUniverse ==
    {NullBlock, Block("undefined", NoText), Block("h2", Text(2)),
     Block("table", NoText), Block("quote", Text(9)),
     Block("takeaway", Text(9)), Block("stat", NoText),
     Block("key_term", NoText), Block("image_prompt", NoText),
     Block("p", NoText), Block("p", Text(81)), Block("p", Text(650)),
     Block("p", Text(1000))}

BlockLists == UNION {[1..n -> BlockUniverse] : n \in 0..MaxLen}

NoBudget == calculatePageBudget(0)

(***************************************************************************)
(* SpecBudget: calculatePageBudget applied to every targetPages            *)
(***************************************************************************)
NoArchitecture ==
    [set |-> FALSE, budget |-> NoBudget, sections |-> 0, abstract |-> FALSE]

\* the state of the GoodPDF component after construction
IdleApp ==
    /\ step = "SETUP"
    /\ config = [topic |-> FALSE, pages |-> 4]
    /\ architecture = NoArchitecture
    /\ pageData = <<>>
    /\ layoutMetrics = [scale |-> 100]
    /\ runs = <<>>

\* an optional field: absent, or present with a value
None == <<>>
Some(v) == <<v>>

NoSize == [preset |-> None, width |-> None, height |-> None]
NoSource == [title |-> None, subtitle |-> None, pages |-> None]
NoDocument == [id |-> "none", pages |-> <<>>]
NoRender == [calls |-> <<>>, outcome |-> "none", error |-> 0, failAt |-> 0]

\* a JsPdfContext before beginDocument: this.doc is undefined
NoJsPdf ==
    [doc |-> FALSE, pageCount |-> 0, fontSize |-> None,
     textColor |-> "default", fillColor |-> "default", calls |-> 0]

IdleExt ==
    /\ weightOut = <<>>
    /\ sizeArg = NoSize /\ dpiArg = 72 /\ sizeOut = [width |-> 0, height |-> 0]
    /\ source = NoSource /\ pdfDoc = NoDocument
    /\ doc = NoDocument /\ rendered = NoRender
    /\ jsPdf = NoJsPdf

IdleFit ==
    /\ blocksGiven = FALSE /\ allBlocks = <<>> /\ contentPages = 1
    /\ scaleArg = 100 /\ fit = EmptyFit /\ fit2 = EmptyFit /\ pages = <<>>

InitBudget ==
    /\ pc = "input"
    /\ targetPages \in 1..MaxTarget
    /\ budget = NoBudget
    /\ IdleFit
    /\ IdleApp
    /\ IdleExt

CalculatePageBudget ==
    /\ pc = "input"
    /\ budget' = calculatePageBudget(targetPages)
    /\ pc' = "budget"
    /\ UNCHANGED <<targetPages, blocksGiven, allBlocks, contentPages,
                   scaleArg, fit, fit2, pages>>
    /\ UNCHANGED <<appVars, extVars>>

NextBudget == CalculatePageBudget

SpecBudget == InitBudget /\ [][NextBudget]_vars

(***************************************************************************)
(* SpecFit: the fit pass and the pagination pass applied to every block    *)
(* list of the universe                                                    *)
(***************************************************************************)
InitFit ==
    /\ pc = "input"
    /\ targetPages = 0 /\ budget = NoBudget
    /\ blocksGiven \in BOOLEAN
    /\ allBlocks \in BlockLists
    /\ blocksGiven = FALSE => allBlocks = <<>>
    /\ contentPages \in 1..MaxContentPages
    /\ scaleArg = 100
    /\ fit = EmptyFit /\ fit2 = EmptyFit /\ pages = <<>>
    /\ IdleApp
    /\ IdleExt

\* optimizeContentToFit(allBlocks, contentPages)
OptimizeContentToFit ==
    /\ pc = "input"
    /\ fit' = optimizeContentToFit(blocksGiven, allBlocks, contentPages)
    /\ pc' = "fit"
    /\ UNCHANGED <<targetPages, budget, blocksGiven, allBlocks, contentPages,
                   scaleArg, fit2, pages>>
    /\ UNCHANGED <<appVars, extVars>>

\* optimizeContentToFit applied to the blocks it returned
OptimizeAgain ==
    /\ pc = "fit"
    /\ fit2' = optimizeContentToFit(TRUE, fit.blocks, contentPages)
    /\ pc' = "refit"
    /\ UNCHANGED <<targetPages, budget, blocksGiven, allBlocks, contentPages,
                   scaleArg, fit, pages>>
    /\ UNCHANGED <<appVars, extVars>>

\* paginateContent(allBlocks, contentPages, scale) for a scale of Scales
PaginateContent ==
    /\ pc = "input"
    /\ \E s \in Scales :
          /\ scaleArg' = s
          /\ pages' = paginateContent(blocksGiven, allBlocks, contentPages, s)
    /\ pc' = "paginated"
    /\ UNCHANGED <<targetPages, budget, blocksGiven, allBlocks, contentPages,
                   fit, fit2>>
    /\ UNCHANGED <<appVars, extVars>>

\* paginateContent(optimizedBlocks, contentPages, scale), as writeAll calls it
PaginateFit ==
    /\ pc = "fit"
    /\ scaleArg' = fit.scale
    /\ pages' = paginateContent(TRUE, fit.blocks, contentPages, fit.scale)
    /\ pc' = "laidout"
    /\ UNCHANGED <<targetPages, budget, blocksGiven, allBlocks, contentPages,
                   fit, fit2>>
    /\ UNCHANGED <<appVars, extVars>>

NextFit == OptimizeContentToFit \/ OptimizeAgain \/ PaginateContent \/ PaginateFit

SpecFit == InitFit /\ [][NextFit]_vars

(***************************************************************************)
(* Spec: the generation lifecycle of the GoodPDF component.  The user      *)
(* edits the setup form, starts runs and clicks the header; the AI calls   *)
(* of a run resolve in any order relative to the user and to other runs    *)
(* (no run is ever cancelled).  callAI never throws: it returns the parsed *)
(* answer or null.                                                         *)
(***************************************************************************)
PageChoices == <<4, 6, 8, 10, 15, 20>>

\* the lengths the setup form offers
PageOptions == {PageChoices[k] : k \in 1..Min(MaxPageOpt, Len(PageChoices))}

\* what generateStructure may resolve to: null, or an outline
StructureAnswers ==
    {[ok |-> FALSE, sections |-> 0, abstract |-> FALSE]} \cup
    [ok : {TRUE}, sections : 1..MaxAISections, abstract : BOOLEAN]

\* what generateSectionContent may resolve to: null, or a block list
SectionAnswers ==
    {[ok |-> FALSE, blocks |-> <<>>],
     [ok |-> TRUE, blocks |-> <<Block("h2", Text(2)), Block("p", Text(50)),
                                Block("p", Text(45))>>],
     [ok |-> TRUE, blocks |-> <<Block("h2", Text(2)), Block("p", Text(60)),
                                Block("image_prompt", NoText)>>]}

AbstractBlocks == <<Block("h2", Text(1)), Block("p", Text(40))>>

\* the fallback content of a section whose generation failed
FallbackBlocks ==
    <<Block("h2", Text(2)), Block("p", Text(31)), Block("p", Text(15))>>

ReferenceBlocks == <<Block("h2", Text(1)), Block("p", Text(6))>>

\* Methodology, Discussion, Conclusion, Future Work
supplementarySections ==
    <<<<Block("h2", Text(1)), Block("p", Text(32)), Block("p", Text(25))>>,
      <<Block("h2", Text(1)), Block("p", Text(32)), Block("p", Text(25))>>,
      <<Block("h2", Text(1)), Block("p", Text(31)), Block("p", Text(25))>>,
      <<Block("h2", Text(2)), Block("p", Text(33)), Block("p", Text(25))>>>>

RECURSIVE AddSupplementary(_, _, _)
AddSupplementary(blocks, cp, k) ==
    IF k > Len(supplementarySections) THEN blocks
    ELSE IF Len(blocks) < cp * 10
         THEN AddSupplementary(blocks \o supplementarySections[k], cp, k + 1)
         ELSE AddSupplementary(blocks, cp, k + 1)

\* writeAll after its last section: references and supplementary content
WriteAllTail(blocks, cp) ==
    LET withRefs == blocks \o ReferenceBlocks
        estimatedPages == CeilDiv(Len(withRefs) * 80, 850)
    IN IF estimatedPages < cp THEN AddSupplementary(withRefs, cp, 1)
       ELSE withRefs

NoRun ==
    [phase |-> "none", budget |-> NoBudget, sections |-> 0,
     abstract |-> FALSE, i |-> 0, blocks |-> <<>>]

InitApp ==
    /\ pc = "app"
    /\ targetPages = 0 /\ budget = NoBudget
    /\ IdleFit
    /\ IdleApp
    /\ IdleExt

\* onChange of the topic textarea (shown in SETUP)
SetTopic ==
    /\ step = "SETUP"
    /\ \E t \in BOOLEAN : config' = [config EXCEPT !.topic = t]
    /\ UNCHANGED <<extVars, pureVars, step, architecture, pageData, layoutMetrics, runs>>

\* onChange of the length select (shown in SETUP)
SetPages ==
    /\ step = "SETUP"
    /\ \E n \in PageOptions : config' = [config EXCEPT !.pages = n]
    /\ UNCHANGED <<extVars, pureVars, step, architecture, pageData, layoutMetrics, runs>>

\* onClick of the header logo: setStep('SETUP')
HeaderClick ==
    /\ step' = "SETUP"
    /\ UNCHANGED <<extVars, pureVars, config, architecture, pageData, layoutMetrics, runs>>

\* handleStart up to its await of generateStructure
HandleStart ==
    /\ step = "SETUP"
    /\ Len(runs) < MaxStarts
    /\ IF ~config.topic
       THEN UNCHANGED <<step, runs>>
       ELSE /\ step' = "ARCHITECTING"
            /\ runs' = Append(runs, [NoRun EXCEPT
                            !.phase = "structure",
                            !.budget = calculatePageBudget(config.pages)])
    /\ UNCHANGED <<extVars, pureVars, config, architecture, pageData, layoutMetrics>>

\* handleStart after generateStructure resolved; on success the effect on
\* [step, architecture] then starts writeAll, which runs up to its await
\* of the first section
StructureResolves(r) ==
    /\ runs[r].phase = "structure"
    /\ \E a \in StructureAnswers :
          IF a.ok
          THEN LET n == Min(a.sections, runs[r].budget.sectionCount)
               IN /\ architecture' = [set |-> TRUE, budget |-> runs[r].budget,
                                      sections |-> n, abstract |-> a.abstract]
                  /\ step' = "WRITING"
                  /\ runs' = [runs EXCEPT ![r] =
                        [@ EXCEPT !.phase = "section", !.sections = n,
                                  !.abstract = a.abstract, !.i = 1,
                                  !.blocks = IF a.abstract THEN AbstractBlocks
                                             ELSE <<>>]]
          ELSE /\ step' = "SETUP"
               /\ runs' = [runs EXCEPT ![r] = [@ EXCEPT !.phase = "failed"]]
               /\ UNCHANGED architecture
    /\ UNCHANGED <<extVars, pureVars, config, pageData, layoutMetrics>>

\* writeAll after generateSectionContent resolved for section i; after the
\* last section it optimizes, paginates and finishes
SectionResolves(r) ==
    /\ runs[r].phase = "section"
    /\ \E a \in SectionAnswers :
          LET got == runs[r].blocks \o (IF a.ok THEN a.blocks ELSE FallbackBlocks)
              cp == runs[r].budget.contentPages
              final == WriteAllTail(got, cp)
              res == optimizeContentToFit(TRUE, final, cp)
          IN IF runs[r].i < runs[r].sections
             THEN /\ runs' = [runs EXCEPT ![r] =
                        [@ EXCEPT !.i = @ + 1, !.blocks = got]]
                  /\ UNCHANGED <<step, pageData, layoutMetrics>>
             ELSE /\ runs' = [runs EXCEPT ![r] =
                        [@ EXCEPT !.phase = "done", !.blocks = final]]
                  /\ pageData' = paginateContent(TRUE, res.blocks, cp, res.scale)
                  /\ layoutMetrics' = [scale |-> res.scale]
                  /\ step' = "FINISHED"
    /\ UNCHANGED <<extVars, pureVars, config, architecture>>

Next ==
    \/ SetTopic
    \/ SetPages
    \/ HeaderClick
    \/ HandleStart
    \/ \E r \in DOMAIN runs : StructureResolves(r)
    \/ \E r \in DOMAIN runs : SectionResolves(r)

Spec == InitApp /\ [][Next]_vars

(***************************************************************************)
(* SpecWeight: getBlockWeight applied to every pair of blocks of every     *)
(* type (known, unknown, missing) and every paragraph length               *)
(***************************************************************************)
WeightTypes ==
    {"h2", "h3", "p", "image_prompt", "stat", "key_term", "case_study",
     "table", "takeaway", "quote", "list", "undefined"}

WeightBlocks ==
    {NullBlock} \cup {Block(t, NoText) : t \in WeightTypes}
                \cup {Block("p", Text(n)) : n \in 0..MaxWords}

InitWeight ==
    /\ pc = "blocks"
    /\ targetPages = 0
    /\ budget = NoBudget
    /\ blocksGiven = TRUE
    /\ allBlocks \in [1..2 -> WeightBlocks]
    /\ contentPages = 1
    /\ scaleArg = 100
    /\ fit = EmptyFit
    /\ fit2 = EmptyFit
    /\ pages = <<>>
    /\ IdleApp
    /\ IdleExt

GetBlockWeight ==
    /\ pc = "blocks"
    /\ pc' = "weighed"
    /\ weightOut' = [i \in DOMAIN allBlocks |-> getBlockWeight(allBlocks[i])]
    /\ UNCHANGED <<targetPages, budget, blocksGiven, allBlocks, contentPages,
                   scaleArg, fit, fit2, pages, appVars, sizeArg, dpiArg,
                   sizeOut, source, pdfDoc, doc, rendered, jsPdf>>

NextWeight == GetBlockWeight

SpecWeight == InitWeight /\ [][NextWeight]_vars

(***************************************************************************)
(* resolvePageSize.  Lengths are in hundredths of a point (595.28 ->       *)
(* 59528).  An optional field of the size is None or Some(value).          *)
(***************************************************************************)
A4_WIDTH == 59528
A4_HEIGHT == 84189

presetMap ==
    [A4 |-> [wPt |-> A4_WIDTH, hPt |-> A4_HEIGHT],
     Letter |-> [wPt |-> 61200, hPt |-> 79200],
     Legal |-> [wPt |-> 61200, hPt |-> 100800]]

OrElse_falsy(opt, dflt) == IF opt = None \/ opt[1] = 0 THEN dflt ELSE opt[1]

\* a ?? b: b only when a is missing
OrElse(opt, dflt) == IF opt = None THEN dflt ELSE opt[1]

\* size.preset && presetMap[size.preset]: the empty string is falsy
HasPreset(size) ==
    /\ size.preset # None
    /\ size.preset[1] # ""
    /\ size.preset[1] \in DOMAIN presetMap

resolvePageSize(size, dpi) ==
    LET base == IF HasPreset(size) THEN presetMap[size.preset[1]]
                ELSE [wPt |-> OrElse(size.width, A4_WIDTH),
                      hPt |-> OrElse(size.height, A4_HEIGHT)]
    IN [width |-> base.wPt, height |-> base.hPt]

(***************************************************************************)
(* SpecPageSize: resolvePageSize applied to every size and dpi             *)
(***************************************************************************)
PresetInputs == {None, Some(""), Some("A4"), Some("Letter"), Some("Legal"),
                 Some("Tabloid")}
LengthInputs == {None} \cup {Some(v * 10000) : v \in 0..MaxLength}
DpiInputs == {72, 96, 300}

SizeInputs ==
    [preset : PresetInputs, width : LengthInputs, height : LengthInputs]

InitPageSize ==
    /\ pc = "size"
    /\ targetPages = 0
    /\ budget = NoBudget
    /\ IdleFit
    /\ IdleApp
    /\ weightOut = <<>>
    /\ sizeArg \in SizeInputs
    /\ dpiArg \in DpiInputs
    /\ sizeOut = [width |-> 0, height |-> 0]
    /\ source = NoSource /\ pdfDoc = NoDocument
    /\ doc = NoDocument /\ rendered = NoRender
    /\ jsPdf = NoJsPdf

ResolvePageSize ==
    /\ pc = "size"
    /\ pc' = "resolved"
    /\ sizeOut' = resolvePageSize(sizeArg, dpiArg)
    /\ UNCHANGED <<targetPages, budget, blocksGiven, allBlocks, contentPages,
                   scaleArg, fit, fit2, pages, appVars, weightOut, sizeArg,
                   dpiArg, source, pdfDoc, doc, rendered, jsPdf>>

NextPageSize == ResolvePageSize

SpecPageSize == InitPageSize /\ [][NextPageSize]_vars

(***************************************************************************)
(* buildPdfDocumentFromTextora.  An element is a record of its id, type,   *)
(* position, z-index (None when unset) and children (None when the         *)
(* element has no children field).  A string field of the source is None   *)
(* or Some(string); the empty string is falsy.                             *)
(***************************************************************************)
TruthyString(opt) == opt # None /\ opt[1] # ""

A4_SIZE == [preset |-> Some("A4"), width |-> None, height |-> None]

TextElement(id, x, y) ==
    [id |-> id, type |-> "text", x |-> x, y |-> y, z |-> None,
     children |-> None]

BoxElement(id, x, y, children) ==
    [id |-> id, type |-> "box", x |-> x, y |-> y, z |-> None,
     children |-> Some(children)]

coverElements_titleOnly(src) ==
    IF TruthyString(src.title) THEN <<TextElement("cover-title", 72, 200)>>
    ELSE <<>>

coverElements(src) ==
    (IF TruthyString(src.title) THEN <<TextElement("cover-title", 72, 200)>>
     ELSE <<>>)
    \o (IF TruthyString(src.subtitle)
        THEN <<TextElement("cover-subtitle", 72, 280)>> ELSE <<>>)

coverPage(src) ==
    [id |-> "page-cover", size |-> A4_SIZE, backgroundColor |-> Some("#ffffff"),
     backgroundImage |-> None, elements |-> coverElements(src)]

idBase_pageOnly(pageIndex, blockIndex) == "p" \o ToString(pageIndex + 1)

\* `p${pageIndex + 1}-b${blockIndex}`
idBase(pageIndex, blockIndex) ==
    "p" \o ToString(pageIndex + 1) \o "-b" \o ToString(blockIndex)

lineHeight == 20

\* the forEach over page.content from blockIndex on, with its cursorY
RECURSIVE BlockElements(_, _, _, _)
BlockElements(content, pageIndex, blockIndex, cursorY) ==
    IF blockIndex >= Len(content) THEN <<>>
    ELSE LET block == content[blockIndex + 1]
             base == idBase(pageIndex, blockIndex)
         IN IF ~Truthy(block)
            THEN BlockElements(content, pageIndex, blockIndex + 1, cursorY)
            ELSE IF block.type = "h2"
            THEN <<TextElement(base \o "-h2", 72, cursorY)>>
                 \o BlockElements(content, pageIndex, blockIndex + 1,
                                  cursorY + lineHeight * 2)
            ELSE IF block.type = "p"
            THEN <<TextElement(base \o "-p", 72, cursorY)>>
                 \o BlockElements(content, pageIndex, blockIndex + 1,
                                  cursorY + lineHeight * 3)
            ELSE IF block.type = "stat"
            THEN <<BoxElement(base \o "-stat-box", 72, cursorY,
                      <<TextElement(base \o "-stat-value", 82, cursorY + 12),
                        TextElement(base \o "-stat-label", 82, cursorY + 42)>>)>>
                 \o BlockElements(content, pageIndex, blockIndex + 1,
                                  cursorY + 100)
            ELSE BlockElements(content, pageIndex, blockIndex + 1, cursorY)

\* x || []
OrEmpty(opt) == IF opt = None THEN <<>> ELSE opt[1]

pdfPage_cursorCarried(page, pageIndex) ==
    [id |-> "page-" \o ToString(pageIndex + 1), size |-> A4_SIZE,
     backgroundColor |-> Some("#ffffff"), backgroundImage |-> None,
     elements |->
        (IF TruthyString(page.title)
         THEN <<TextElement("page-" \o ToString(pageIndex + 1) \o "-title",
                            72, 72)>>
         ELSE <<>>)
        \o BlockElements(OrEmpty(page.content), pageIndex, 0,
                         130 + 100 * pageIndex)]

\* the PDFPage of the source page at pageIndex (0-based)
pdfPage(page, pageIndex) ==
    [id |-> "page-" \o ToString(pageIndex + 1), size |-> A4_SIZE,
     backgroundColor |-> Some("#ffffff"), backgroundImage |-> None,
     elements |->
        (IF TruthyString(page.title)
         THEN <<TextElement("page-" \o ToString(pageIndex + 1) \o "-title",
                            72, 72)>>
         ELSE <<>>)
        \o BlockElements(OrEmpty(page.content), pageIndex, 0, 130)]

buildPdfDocumentFromTextora(src) ==
    [id |-> "textora-doc",
     pages |-> <<coverPage(src)>>
               \o [i \in 1..Len(OrEmpty(src.pages)) |->
                      pdfPage(OrEmpty(src.pages)[i], i - 1)]]

(***************************************************************************)
(* SpecAdapter: buildPdfDocumentFromTextora applied to every source whose  *)
(* pages and blocks number at most MaxSourceSize together                  *)
(***************************************************************************)
SourceBlocks ==
    {NullBlock, Block("h2", Text(2)), Block("p", Text(81)),
     Block("stat", NoText), Block("quote", Text(9))}

\* the source pages that hold n - 1 blocks
SourcePagesOfSize(n) ==
    [title : {None, Some("Chapter")},
     content : (IF n = 1 THEN {None} ELSE {})
               \cup {Some(c) : c \in [1..(n - 1) -> SourceBlocks]}]

\* the page lists whose pages and blocks number n together
RECURSIVE SourcePageLists(_)
SourcePageLists(n) ==
    IF n = 0 THEN {<<>>}
    ELSE UNION {{<<pg>> \o rest : pg \in SourcePagesOfSize(k),
                                  rest \in SourcePageLists(n - k)} : k \in 1..n}

Sources ==
    [title : {None, Some(""), Some("Title")},
     subtitle : {None, Some("Subtitle")},
     pages : {None} \cup {Some(ps) : ps \in UNION {SourcePageLists(n) :
                                                   n \in 0..MaxSourceSize}}]

InitAdapter ==
    /\ pc = "source"
    /\ targetPages = 0
    /\ budget = NoBudget
    /\ IdleFit
    /\ IdleApp
    /\ weightOut = <<>>
    /\ sizeArg = NoSize /\ dpiArg = 72 /\ sizeOut = [width |-> 0, height |-> 0]
    /\ source \in Sources
    /\ pdfDoc = NoDocument
    /\ doc = NoDocument /\ rendered = NoRender
    /\ jsPdf = NoJsPdf

BuildPdfDocumentFromTextora ==
    /\ pc = "source"
    /\ pc' = "built"
    /\ pdfDoc' = buildPdfDocumentFromTextora(source)
    /\ UNCHANGED <<targetPages, budget, blocksGiven, allBlocks, contentPages,
                   scaleArg, fit, fit2, pages, appVars, weightOut, sizeArg,
                   dpiArg, sizeOut, source, doc, rendered, jsPdf>>

NextAdapter == BuildPdfDocumentFromTextora

SpecAdapter == InitAdapter /\ [][NextAdapter]_vars

(***************************************************************************)
(* The renderer.  The backend is seen through the calls made on it: a      *)
(* render state holds the calls issued so far, the number of the call that *)
(* threw (0 while none has) and failAt, the number of the call at which    *)
(* the backend throws (0 for a backend that never throws).  A call is      *)
(* tagged with the page it was made for (0 for the document calls) and     *)
(* with the element it was made for: the path of original sibling indices  *)
(* from the page's element list down to the element, <<>> for page calls.  *)
(* An exception propagates: once a call has thrown, no statement after it  *)
(* runs.                                                                   *)
(***************************************************************************)
NoArgs == [width |-> 0, height |-> 0]

Call(st, op, page, el, args) ==
    IF st.thrown # 0 THEN st
    ELSE [calls |-> Append(st.calls,
                      [op |-> op, page |-> page, el |-> el, args |-> args]),
          thrown |-> IF Len(st.calls) + 1 = st.failAt THEN st.failAt ELSE 0,
          failAt |-> st.failAt]

\* the calls ops, one after the other, for one element
RECURSIVE Calls(_, _, _, _)
Calls(st, ops, page, el) ==
    IF ops = <<>> THEN st
    ELSE Calls(Call(st, Head(ops), page, el, NoArgs), Tail(ops), page, el)

\* a.layout.zIndex ?? 0
zIndex(element) == OrElse(element.z, 0)

InsertByZ_beforeTies(sorted, k, elements) ==
    LET n == Cardinality({i \in DOMAIN sorted :
                 zIndex(elements[sorted[i]]) < zIndex(elements[k])})
    IN SubSeq(sorted, 1, n) \o <<k>> \o SubSeq(sorted, n + 1, Len(sorted))

\* the stable sort puts element k after the elements before it in the
\* list whose z-index is not greater
InsertByZ(sorted, k, elements) ==
    LET n == Cardinality({i \in DOMAIN sorted :
                 zIndex(elements[sorted[i]]) <= zIndex(elements[k])})
    IN SubSeq(sorted, 1, n) \o <<k>> \o SubSeq(sorted, n + 1, Len(sorted))

\* [...elements].sort((a, b) => (a.layout.zIndex ?? 0) - (b.layout.zIndex
\* ?? 0)), as the original indices of the elements in sorted order
RECURSIVE SortByZ(_, _)
SortByZ(elements, k) ==
    IF k = 0 THEN <<>>
    ELSE InsertByZ(SortByZ(elements, k - 1), k, elements)

renderTextElement(st, el, page, path) ==
    Calls(st,
          <<"setFont", "setFontSize", "setFillColor", "setOpacity">>
          \o (IF el.gradientFill THEN <<"setTextGradient">> ELSE <<>>)
          \o (IF el.stroke THEN <<"setTextStroke">> ELSE <<>>)
          \o <<"drawText">>,
          page, path)

renderImageElement(st, el, page, path) ==
    Calls(st,
          <<"setOpacity", "setBlendMode", "computeObjectFit">>
          \o (IF el.shadow THEN <<"drawShadow">> ELSE <<>>)
          \o <<"drawImage">>,
          page, path)

renderShapeElement(st, el, page, path) ==
    Calls(st, <<"setShapeStroke", "setShapeFill", "drawShape">>, page, path)

RECURSIVE renderElement(_, _, _, _)
RECURSIVE renderBoxElement(_, _, _, _)
RECURSIVE RenderSorted(_, _, _, _, _)

\* for (const el of sorted) renderElement(engine, el, ctx), over the
\* original indices in order
RenderSorted(st, elements, order, page, path) ==
    IF order = <<>> THEN st
    ELSE RenderSorted(renderElement(st, elements[Head(order)], page,
                                    Append(path, Head(order))),
                      elements, Tail(order), page, path)

renderBoxElement_unsorted(st, box, page, path) ==
    IF box.children = None \/ Len(box.children[1]) = 0 THEN st
    ELSE RenderSorted(st, box.children[1],
                      [k \in 1..Len(box.children[1]) |-> k], page, path)

renderBoxElement(st, box, page, path) ==
    IF box.children = None \/ Len(box.children[1]) = 0 THEN st
    ELSE RenderSorted(st, box.children[1],
                      SortByZ(box.children[1], Len(box.children[1])),
                      page, path)

renderElement_finally(st, element, page, path) ==
    LET saved == Call(st, "saveState", page, path, NoArgs)
        drawn == CASE element.type = "box" ->
                        renderBoxElement(saved, element, page, path)
                   [] element.type = "text" ->
                        renderTextElement(saved, element, page, path)
                   [] element.type = "image" ->
                        renderImageElement(saved, element, page, path)
                   [] element.type = "shape" ->
                        renderShapeElement(saved, element, page, path)
                   [] OTHER -> saved
    IN IF saved.thrown # 0 THEN saved
       ELSE [drawn EXCEPT !.calls =
                Append(@, [op |-> "restoreState", page |-> page,
                           el |-> path, args |-> NoArgs])]

renderElement_restoreInCase(st, element, page, path) ==
    LET saved == Call(st, "saveState", page, path, NoArgs)
    IN CASE element.type = "box" ->
              Call(renderBoxElement(saved, element, page, path),
                   "restoreState", page, path, NoArgs)
         [] element.type = "text" ->
              Call(renderTextElement(saved, element, page, path),
                   "restoreState", page, path, NoArgs)
         [] element.type = "image" ->
              Call(renderImageElement(saved, element, page, path),
                   "restoreState", page, path, NoArgs)
         [] element.type = "shape" ->
              Call(renderShapeElement(saved, element, page, path),
                   "restoreState", page, path, NoArgs)
         [] OTHER -> saved

\* the switch has no default: an element of another type is saved and
\* restored with nothing drawn
renderElement(st, element, page, path) ==
    LET saved == Call(st, "saveState", page, path, NoArgs)
        drawn == CASE element.type = "box" ->
                        renderBoxElement(saved, element, page, path)
                   [] element.type = "text" ->
                        renderTextElement(saved, element, page, path)
                   [] element.type = "image" ->
                        renderImageElement(saved, element, page, path)
                   [] element.type = "shape" ->
                        renderShapeElement(saved, element, page, path)
                   [] OTHER -> saved
    IN Call(drawn, "restoreState", page, path, NoArgs)

\* { x: 0, y: 0, width, height }
FullPage(size) ==
    [x |-> 0, y |-> 0, width |-> size.width, height |-> size.height]

renderBackground_colorOnly(st, page, pageNo, size) ==
    IF page.backgroundColor # None
    THEN LET rect == Call(st, "drawRect", pageNo, <<>>, FullPage(size))
         IN IF page.backgroundImage # None
            THEN Call(rect, "drawBackgroundImage", pageNo, <<>>,
                      FullPage(size))
            ELSE rect
    ELSE st

\* the page background: a page-sized rectangle, then the image if any
renderBackground(st, page, pageNo, size) ==
    IF page.backgroundColor # None \/ page.backgroundImage # None
    THEN LET rect == Call(st, "drawRect", pageNo, <<>>, FullPage(size))
         IN IF page.backgroundImage # None
            THEN Call(rect, "drawBackgroundImage", pageNo, <<>>,
                      FullPage(size))
            ELSE rect
    ELSE st

renderPage_noEndPage(st, page, pageNo, dpi) ==
    LET size == resolvePageSize(page.size, dpi)
        begun == Call(st, "beginPage", pageNo, <<>>, size)
        background == renderBackground(begun, page, pageNo, size)
    IN RenderSorted(background, page.elements,
                    SortByZ(page.elements, Len(page.elements)),
                    pageNo, <<>>)

\* the body of the loop over doc.pages
renderPage(st, page, pageNo, dpi) ==
    LET size == resolvePageSize(page.size, dpi)
        begun == Call(st, "beginPage", pageNo, <<>>, size)
        background == renderBackground(begun, page, pageNo, size)
        drawn == RenderSorted(background, page.elements,
                              SortByZ(page.elements, Len(page.elements)),
                              pageNo, <<>>)
    IN Call(drawn, "endPage", pageNo, <<>>, NoArgs)

\* for (const page of doc.pages), from page pageNo on
RECURSIVE RenderPages(_, _, _, _)
RenderPages(st, pgs, pageNo, dpi) ==
    IF pageNo > Len(pgs) THEN st
    ELSE RenderPages(renderPage(st, pgs[pageNo], pageNo, dpi), pgs,
                     pageNo + 1, dpi)

\* the calls of a render on a backend that throws at call failAt, and
\* whether the returned promise resolves to bytes or rejects with the
\* error of that call
renderPDFDocument(document, dpi, failAt) ==
    LET begun == Call([calls |-> <<>>, thrown |-> 0, failAt |-> failAt],
                      "beginDocument", 0, <<>>, NoArgs)
        drawn == RenderPages(begun, document.pages, 1, dpi)
        ended == Call(drawn, "endDocument", 0, <<>>, NoArgs)
    IN [calls |-> ended.calls,
        outcome |-> IF ended.thrown # 0 THEN "error" ELSE "bytes",
        error |-> ended.thrown,
        failAt |-> failAt]

(***************************************************************************)
(* SpecRender: renderPDFDocument applied to every document of at most      *)
(* MaxDocSize pages, page options and elements together, on a backend that *)
(* never throws and on backends that throw at one of the calls.  An        *)
(* element is a record of its type, z-index (None when unset), children    *)
(* (None when missing) and the optional style parts that add calls.        *)
(***************************************************************************)
Element(type, z, children, gradientFill, stroke, shadow) ==
    [type |-> type, z |-> z, children |-> children,
     gradientFill |-> gradientFill, stroke |-> stroke, shadow |-> shadow]

LeafElements ==
    {Element("text", z, None, FALSE, FALSE, FALSE) :
        z \in {None, Some(1), Some(2), Some(3)}}
    \cup {Element("text", None, None, TRUE, TRUE, FALSE),
          Element("image", None, None, FALSE, FALSE, FALSE),
          Element("image", None, None, FALSE, FALSE, TRUE),
          Element("shape", None, None, FALSE, FALSE, FALSE),
          Element("chart", None, None, FALSE, FALSE, FALSE)}

EmptyBoxes ==
    {Element("box", None, None, FALSE, FALSE, FALSE),
     Element("box", Some(2), Some(<<>>), FALSE, FALSE, FALSE)}

NewElements == LeafElements \cup EmptyBoxes

LETTER_SIZE == [preset |-> Some("Letter"), width |-> None, height |-> None]

PageOptionSets == SUBSET {"backgroundColor", "backgroundImage", "letter"}

Page(options, elements) ==
    [size |-> IF "letter" \in options THEN LETTER_SIZE ELSE A4_SIZE,
     backgroundColor |-> IF "backgroundColor" \in options
                         THEN Some("#ffffff") ELSE None,
     backgroundImage |-> IF "backgroundImage" \in options
                         THEN Some("paper.png") ELSE None,
     elements |-> elements]

\* the number of elements of a list, descendants included
RECURSIVE CountElements(_)
CountElements(elements) ==
    IF elements = <<>> THEN 0
    ELSE 1 + CountElements(OrEmpty(Head(elements).children))
           + CountElements(Tail(elements))

PageSize(page) ==
    1 + (IF page.size = LETTER_SIZE THEN 1 ELSE 0)
      + (IF page.backgroundColor # None THEN 1 ELSE 0)
      + (IF page.backgroundImage # None THEN 1 ELSE 0)
      + CountElements(page.elements)

\* the pages, page options and elements of a document, counted together
RECURSIVE DocSize(_)
DocSize(pgs) ==
    IF pgs = <<>> THEN 0 ELSE PageSize(Head(pgs)) + DocSize(Tail(pgs))

\* whether elements has a box depth levels down its last elements
RECURSIVE HasBoxAt(_, _)
HasBoxAt(elements, depth) ==
    \/ depth = 0
    \/ /\ elements # <<>>
       /\ elements[Len(elements)].type = "box"
       /\ HasBoxAt(OrEmpty(elements[Len(elements)].children), depth - 1)

\* elements with e appended depth levels down its last elements
RECURSIVE AppendAt(_, _, _)
AppendAt(elements, depth, e) ==
    IF depth = 0 THEN Append(elements, e)
    ELSE [elements EXCEPT ![Len(elements)].children =
             Some(AppendAt(OrEmpty(@), depth - 1, e))]

InitRender ==
    /\ pc = "doc"
    /\ targetPages = 0
    /\ budget = NoBudget
    /\ IdleFit
    /\ IdleApp
    /\ weightOut = <<>>
    /\ sizeArg = NoSize /\ dpiArg = 300 /\ sizeOut = [width |-> 0, height |-> 0]
    /\ source = NoSource /\ pdfDoc = NoDocument
    /\ doc = [id |-> "doc", pages |-> <<>>]
    /\ rendered = NoRender
    /\ jsPdf = NoJsPdf

RenderUnchanged ==
    UNCHANGED <<targetPages, budget, blocksGiven, allBlocks, contentPages,
                scaleArg, fit, fit2, pages, appVars, weightOut, sizeArg,
                dpiArg, sizeOut, source, pdfDoc, jsPdf>>

\* the caller adds a page to the document
AddPage ==
    /\ pc = "doc"
    /\ \E o \in PageOptionSets :
          /\ DocSize(doc.pages) + 1 + Cardinality(o) <= MaxDocSize
          /\ doc' = [doc EXCEPT !.pages = Append(@, Page(o, <<>>))]
    /\ UNCHANGED <<pc, rendered>>
    /\ RenderUnchanged

\* the caller adds an element to the last page, or to a box at the end
\* of it
AddElement ==
    /\ pc = "doc"
    /\ doc.pages # <<>>
    /\ DocSize(doc.pages) < MaxDocSize
    /\ \E depth \in 0..MaxDocSize, e \in NewElements :
          /\ HasBoxAt(doc.pages[Len(doc.pages)].elements, depth)
          /\ doc' = [doc EXCEPT !.pages[Len(doc.pages)].elements =
                                   AppendAt(@, depth, e)]
    /\ UNCHANGED <<pc, rendered>>
    /\ RenderUnchanged

\* a render on a backend that never throws (failAt = 0) or that throws at
\* one of the calls the render makes
RenderPDFDocument ==
    /\ pc = "doc"
    /\ pc' = "rendered"
    /\ \E failAt \in 0..Len(renderPDFDocument(doc, dpiArg, 0).calls) :
          rendered' = renderPDFDocument(doc, dpiArg, failAt)
    /\ UNCHANGED doc
    /\ RenderUnchanged

NextRender == AddPage \/ AddElement \/ RenderPDFDocument

SpecRender == InitRender /\ [][NextRender]_vars

(***************************************************************************)
(* SpecBackend: a JsPdfContext driven through its methods.  Its only field *)
(* is the jsPDF document this.doc; the font size, text colour and fill     *)
(* colour are settings of that document (None / "default" while never      *)
(* set).  new jsPDF(...) starts with one page.  doc.addPage appends a page *)
(* and keeps the document's font size and text colour; whether the fill    *)
(* colour written to the previous page is still in effect on the new page  *)
(* is left open.  calls counts the method calls.                           *)
(***************************************************************************)
FontSizes == {12, 24}
Colors == {"#111827", "#ffffff"}

\* this.doc = new jsPDF(orientation, 'pt', 'a4'), or the throw when jsPDF
\* is not loaded
beginDocument(ctx, loaded) ==
    IF loaded
    THEN [doc |-> TRUE, pageCount |-> 1, fontSize |-> None,
          textColor |-> "default", fillColor |-> "default",
          calls |-> ctx.calls + 1]
    ELSE [ctx EXCEPT !.calls = @ + 1]

\* setPage(1) and setPageDimensions on a document without pages, addPage
\* otherwise; fill is the fill colour in effect on the new page
beginPage(ctx, fill) ==
    IF ~ctx.doc THEN [ctx EXCEPT !.calls = @ + 1]
    ELSE IF ctx.pageCount = 0
    THEN [ctx EXCEPT !.pageCount = 1, !.calls = @ + 1]
    ELSE [ctx EXCEPT !.pageCount = @ + 1, !.fillColor = fill,
                     !.calls = @ + 1]

setFontSize(ctx, size) ==
    IF ~ctx.doc THEN [ctx EXCEPT !.calls = @ + 1]
    ELSE [ctx EXCEPT !.fontSize = Some(size), !.calls = @ + 1]

\* doc.setFillColor and doc.setTextColor; a colour jsPDF rejects throws
\* inside the try and is ignored
setFillColor(ctx, color) ==
    IF ~ctx.doc \/ color \notin Colors THEN [ctx EXCEPT !.calls = @ + 1]
    ELSE [ctx EXCEPT !.fillColor = color, !.textColor = color,
                     !.calls = @ + 1]

\* with a fillColor: this.setFillColor(fillColor), then doc.rect
drawRect(ctx, fillColor) ==
    IF ~ctx.doc \/ fillColor = None THEN [ctx EXCEPT !.calls = @ + 1]
    ELSE setFillColor(ctx, fillColor[1])

\* endPage, saveState, restoreState, drawText and the other methods
\* that set nothing
otherCall(ctx) == [ctx EXCEPT !.calls = @ + 1]

InitBackend ==
    /\ pc = "context"
    /\ targetPages = 0
    /\ budget = NoBudget
    /\ IdleFit
    /\ IdleApp
    /\ IdleExt

BackendUnchanged ==
    UNCHANGED <<targetPages, budget, blocksGiven, allBlocks, contentPages,
                scaleArg, fit, fit2, pages, appVars, weightOut, sizeArg,
                dpiArg, sizeOut, source, pdfDoc, doc, rendered>>

BeginDocument ==
    /\ pc = "context"
    /\ pc' = "document"
    /\ \E loaded \in BOOLEAN : jsPdf' = beginDocument(jsPdf, loaded)
    /\ BackendUnchanged

BeginPage ==
    /\ pc = "document" /\ jsPdf.calls < MaxBackendCalls
    /\ \E fill \in {jsPdf.fillColor, "default"} :
          jsPdf' = beginPage(jsPdf, fill)
    /\ UNCHANGED pc
    /\ BackendUnchanged

SetFontSize ==
    /\ pc = "document" /\ jsPdf.calls < MaxBackendCalls
    /\ \E size \in FontSizes : jsPdf' = setFontSize(jsPdf, size)
    /\ UNCHANGED pc
    /\ BackendUnchanged

SetFillColor ==
    /\ pc = "document" /\ jsPdf.calls < MaxBackendCalls
    /\ \E color \in Colors \cup {"not-a-color"} :
          jsPdf' = setFillColor(jsPdf, color)
    /\ UNCHANGED pc
    /\ BackendUnchanged

DrawRect ==
    /\ pc = "document" /\ jsPdf.calls < MaxBackendCalls
    /\ \E fillColor \in {None} \cup {Some(c) : c \in Colors} :
          jsPdf' = drawRect(jsPdf, fillColor)
    /\ UNCHANGED pc
    /\ BackendUnchanged

OtherCall ==
    /\ pc = "document" /\ jsPdf.calls < MaxBackendCalls
    /\ jsPdf' = otherCall(jsPdf)
    /\ UNCHANGED pc
    /\ BackendUnchanged

EndDocument ==
    /\ pc = "document"
    /\ pc' = "bytes"
    /\ UNCHANGED jsPdf
    /\ BackendUnchanged

NextBackend ==
    \/ BeginDocument \/ BeginPage \/ SetFontSize \/ SetFillColor
    \/ DrawRect \/ OtherCall \/ EndDocument

SpecBackend == InitBackend /\ [][NextBackend]_vars

(***************************************************************************)
(* Properties of calculatePageBudget (SpecBudget)                          *)
(***************************************************************************)

\* C4: for every targetPages >= 1 the budget has hasTOC = TRUE and
\* tocPages = 1 exactly when targetPages >= 5 (else FALSE and 0), and
\* contentPages = max(1, targetPages - (1 + tocPages)).
C4_TocAndContentPages ==
    pc = "budget" =>
        /\ budget.hasTOC = (targetPages >= 5)
        /\ budget.tocPages = (IF targetPages >= 5 THEN 1 ELSE 0)
        /\ budget.contentPages =
              (IF targetPages - (1 + budget.tocPages) >= 1
               THEN targetPages - (1 + budget.tocPages) ELSE 1)

C4_Witness ==
    pc = "budget" /\ targetPages = 5 /\ budget.hasTOC /\ budget.contentPages = 3

\* C5: for every targetPages >= 1, contentPages >= 1, sectionCount is
\* floor(contentPages * 1.2) clamped to [2, 15], totalWordBudget is
\* contentPages * 280 and wordsPerSection is
\* floor(totalWordBudget / sectionCount).
C5_SectionsAndWords ==
    pc = "budget" =>
        LET cp == budget.contentPages
            raw == (cp * 6) \div 5
        IN /\ cp >= 1
           /\ budget.sectionCount \in 2..15
           /\ budget.sectionCount =
                 (IF raw < 2 THEN 2 ELSE IF raw > 15 THEN 15 ELSE raw)
           /\ budget.totalWordBudget = cp * 280
           /\ budget.wordsPerSection * budget.sectionCount
                 <= budget.totalWordBudget
           /\ (budget.wordsPerSection + 1) * budget.sectionCount
                 > budget.totalWordBudget

C5_Witness ==
    /\ pc = "budget"
    /\ (budget.contentPages * 6) \div 5 > 15
    /\ budget.sectionCount = 15

(***************************************************************************)
(* Properties of the fit pass and the pagination pass (SpecFit)            *)
(***************************************************************************)
Capacity == contentPages * 850

PriorityTypes == {"quote", "takeaway", "stat", "key_term", "image_prompt"}

Rank(t) == CHOOSE k \in 1..5 :
    <<"quote", "takeaway", "stat", "key_term", "image_prompt">>[k] = t

HasTypeIn(blocks, T) ==
    \E i \in DOMAIN blocks : blocks[i] # NullBlock /\ blocks[i].type \in T

\* C1: paginateContent returns exactly contentPages page groups, for an
\* empty or non-empty block sequence, contentPages >= 1 and each scale.
C1_ExactPageCount ==
    pc \in {"paginated", "laidout"} => Len(pages) = contentPages

C1_Witness ==
    /\ pc = "paginated"
    /\ Len(allBlocks) > 0
    /\ scaleArg = 112
    /\ contentPages = 3
    /\ Len(pages) = 3
    /\ pages[3] = placeholderContent

\* C3: paginating an empty block sequence yields contentPages filler pages,
\* each the fixed filler content (heading, two paragraphs, key term).
C3_EmptyInputYieldsFillerPages ==
    (pc = "paginated" /\ allBlocks = <<>>) =>
        /\ Len(pages) = contentPages
        /\ \A i \in DOMAIN pages :
              /\ Len(pages[i]) = 4
              /\ pages[i][1].type = "h2"
              /\ pages[i][2].type = "p"
              /\ pages[i][3].type = "p"
              /\ pages[i][4].type = "key_term"

\* C6: optimizeContentToFit never raises, whatever the block list (missing,
\* empty, holding null entries or blocks with missing fields); on empty
\* input it returns an empty block list with scale 1.0.
C6_NeverRaises ==
    pc = "fit" =>
        /\ ~fit.threw
        /\ (~blocksGiven \/ allBlocks = <<>>) =>
              (fit.blocks = <<>> /\ fit.scale = 100)

C6_Witness ==
    /\ pc = "fit"
    /\ blocksGiven
    /\ \E i \in DOMAIN allBlocks : allBlocks[i] = NullBlock
    /\ \E i \in DOMAIN allBlocks : allBlocks[i] = Block("undefined", NoText)
    /\ ~fit.threw

\* C7: whenever the fit pass trims (initial weight > 1.1 * capacity), the
\* returned blocks weigh <= 1.05 * capacity or hold no block of type quote,
\* takeaway, stat, key_term, image_prompt or p.
C7_TrimReachesTargetOrExhausts ==
    (pc = "fit" /\ SumWeights(allBlocks) * 10 > Capacity * 11) =>
        \/ SumWeights(fit.blocks) * 100 <= Capacity * 105
        \/ ~HasTypeIn(fit.blocks, PriorityTypes \cup {"p"})

C7_Witness ==
    /\ pc = "fit"
    /\ SumWeights(allBlocks) * 10 > Capacity * 11
    /\ SumWeights(fit.blocks) * 100 <= Capacity * 105
    /\ HasTypeIn(fit.blocks, PriorityTypes)
    /\ Len(fit.blocks) < Len(allBlocks)

\* C8: trimming follows the priority order quote, takeaway, stat, key_term,
\* image_prompt: a block of one of these types is removed only after every
\* block of each earlier type, and only after every later-positioned block
\* of its own type; a paragraph is removed only after all blocks of the five
\* types, and no retained paragraph is heavier than a removed one.
C8_RemovalOrder ==
    pc = "fit" =>
        LET log == fit.log
            Before(k) == {log[j].i : j \in 1..(k - 1)}
            Removed == {log[j].i : j \in DOMAIN log}
            IsType(i, T) == allBlocks[i] # NullBlock /\ allBlocks[i].type \in T
        IN \A k \in DOMAIN log :
             LET e == log[k]
                 t == allBlocks[e.i].type
             IN /\ e.i \notin Before(k)
                /\ IsType(e.i, PriorityTypes \cup {"p"})
                /\ t \in PriorityTypes =>
                     /\ \A i \in DOMAIN allBlocks :
                           (IsType(i, PriorityTypes) /\ Rank(allBlocks[i].type) < Rank(t))
                               => i \in Before(k)
                     /\ \A i \in DOMAIN allBlocks :
                           (IsType(i, {t}) /\ i > e.i) => i \in Before(k)
                /\ t = "p" =>
                     /\ \A i \in DOMAIN allBlocks :
                           IsType(i, PriorityTypes) => i \in Before(k)
                     /\ \A i \in DOMAIN allBlocks :
                           (IsType(i, {"p"}) /\ i \notin Removed) =>
                               getBlockWeight(allBlocks[i])
                                   <= getBlockWeight(allBlocks[e.i])

C8_Witness ==
    /\ pc = "fit"
    /\ Len(fit.log) = 2
    /\ fit.log[1].block.type = "quote"
    /\ fit.log[2].block.type = "p"
    /\ HasTypeIn(fit.blocks, {"p"})

\* C9: for non-empty input the scale follows the post-trim utilization
\* u = weight / capacity: 0.88 if u > 1.0, 1.12 if u < 0.7, else 1.0; both
\* comparisons are strict (u = 0.7 and u = 1.0 give 1.0); 1,200 units
\* against capacity 1,700 give scale 1.0 and remove no block.
C9_ScaleByUtilization ==
    (pc = "fit" /\ blocksGiven /\ Len(allBlocks) > 0) =>
        LET w == SumWeights(fit.blocks)
        IN /\ w > Capacity => fit.scale = 88
           /\ w * 10 < Capacity * 7 => fit.scale = 112
           /\ (w <= Capacity /\ w * 10 >= Capacity * 7) => fit.scale = 100
           /\ (SumWeights(allBlocks) = 1200 /\ Capacity = 1700) =>
                 (fit.scale = 100 /\ fit.blocks = allBlocks)

C9_Witness ==
    /\ pc = "fit"
    /\ Len(allBlocks) > 0
    /\ SumWeights(fit.blocks) * 10 = Capacity * 7
    /\ fit.scale = 100

\* C10: applying the fit pass to the block list it returned, with the same
\* contentPages, removes no further block once the first result's
\* utilization is within [0.95, 1.05].
C10_Idempotent ==
    (/\ pc = "refit"
     /\ fit.totalWeight * 100 >= Capacity * 95
     /\ fit.totalWeight * 100 <= Capacity * 105) =>
        fit2.blocks = fit.blocks

C10_Witness ==
    /\ pc = "refit"
    /\ Len(fit.log) > 0
    /\ fit.totalWeight * 100 >= Capacity * 95
    /\ fit.totalWeight * 100 <= Capacity * 105
    /\ fit.totalWeight > Capacity
    /\ HasTypeIn(fit.blocks, PriorityTypes)
    /\ fit2.blocks = fit.blocks

\* the block list a pagination was given
PaginateInput == IF pc = "paginated" THEN allBlocks ELSE fit.blocks

RECURSIVE Flatten(_)
Flatten(ps) == IF ps = <<>> THEN <<>> ELSE Head(ps) \o Flatten(Tail(ps))

\* C19: for a non-empty block list paginateContent neither drops,
\* duplicates nor reorders blocks: its loop and final push make at most
\* contentPages pages, and the returned pages before the filler pages,
\* concatenated, are the input.
C19_PaginationKeepsBlocks ==
    (pc \in {"paginated", "laidout"} /\ PaginateInput # <<>>) =>
        /\ Len(ContentPagesOf(PaginateInput, contentPages, scaleArg))
              <= contentPages
        /\ \E k \in 0..Len(pages) :
              /\ Flatten(SubSeq(pages, 1, k)) = PaginateInput
              /\ \A i \in (k + 1)..Len(pages) : pages[i] = placeholderContent

\* three over-heavy paragraphs on two pages: the last page takes two of
\* them because no further page may be opened
C19_Witness ==
    /\ pc = "paginated"
    /\ contentPages = 2
    /\ scaleArg = 100
    /\ allBlocks = <<Block("p", Text(1000)), Block("p", Text(1000)),
                     Block("p", Text(1000))>>
    /\ pages = <<<<Block("p", Text(1000))>>,
                 <<Block("p", Text(1000)), Block("p", Text(1000))>>>>

\* C20: for a non-empty block list paginateContent returns no empty page:
\* every page the loop closes holds a block, also when the first block
\* alone weighs more than 850 / scale.
C20_NoEmptyContentPage ==
    (pc \in {"paginated", "laidout"} /\ PaginateInput # <<>>) =>
        \A i \in DOMAIN pages : pages[i] # <<>>

\* the pages the loop and the final push made of the input
ContentPageCount == Len(ContentPagesOf(PaginateInput, contentPages, scaleArg))

\* the weight of a page, from the weights table
RECURSIVE PageWeight(_)
PageWeight(page) ==
    IF page = <<>> THEN 0
    ELSE (IF Head(page) = NullBlock THEN 0
          ELSE IF Head(page).type = "p"
               THEN CeilDiv(4 * Head(page).text.words + 150, 5)
          ELSE IF Head(page).type \in {"h2", "takeaway"} THEN 100
          ELSE IF Head(page).type = "table" THEN 250
          ELSE IF Head(page).type = "quote" THEN 120
          ELSE IF Head(page).type = "stat" THEN 200
          ELSE IF Head(page).type = "key_term" THEN 180
          ELSE IF Head(page).type = "image_prompt" THEN 320
          ELSE 80)
         + PageWeight(Tail(page))

\* C21: a content page that is followed by another content page weighs at
\* most 850 / scale unless it is a single block; only the last content
\* page can hold several blocks weighing more than that together.
C21_ClosedPagesWithinCapacity ==
    (pc \in {"paginated", "laidout"} /\ PaginateInput # <<>>) =>
        \A i \in 1..(Min(ContentPageCount, Len(pages)) - 1) :
            \/ PageWeight(pages[i]) * scaleArg <= 850 * 100
            \/ Len(pages[i]) = 1

\* at scale 1.12 a 1000-word paragraph (830 > 758.9) stands alone on a
\* page that is followed by another content page
C21_Witness ==
    /\ pc = "paginated"
    /\ scaleArg = 112
    /\ contentPages = 3
    /\ allBlocks = <<Block("p", Text(1000)), Block("p", Text(1000))>>
    /\ pages[2] = <<Block("p", Text(1000))>>
    /\ pages[3] = <<Block("p", Text(1000))>>

\* C22: when a non-empty input makes k < contentPages content pages, the
\* result is those k pages followed by exactly contentPages - k filler
\* pages, each the four blocks h2, p, p, key_term in that order.
C22_FillerAfterContent ==
    (/\ pc \in {"paginated", "laidout"}
     /\ PaginateInput # <<>>
     /\ ContentPageCount < contentPages) =>
        /\ Len(pages) = contentPages
        /\ SubSeq(pages, 1, ContentPageCount)
              = ContentPagesOf(PaginateInput, contentPages, scaleArg)
        /\ \A i \in (ContentPageCount + 1)..contentPages :
              /\ Len(pages[i]) = 4
              /\ <<pages[i][1].type, pages[i][2].type, pages[i][3].type,
                    pages[i][4].type>> = <<"h2", "p", "p", "key_term">>

\* one content page and two filler pages
C22_Witness ==
    /\ pc = "paginated"
    /\ contentPages = 3
    /\ allBlocks = <<Block("stat", NoText), Block("h2", Text(2))>>
    /\ pages[1] = allBlocks
    /\ pages[2] = placeholderContent
    /\ pages[3] = placeholderContent

\* C23: when the input weighs at most 1.1 * contentPages * 850,
\* optimizeContentToFit returns the input sequence as it is; trimmed or
\* not, the caller's array is the same after the call.
C23_NoTrimReturnsInput ==
    [][(pc = "input" /\ pc' = "fit") =>
          /\ allBlocks' = allBlocks
          /\ (blocksGiven /\ allBlocks # <<>>
              /\ PageWeight(allBlocks) * 10 <= contentPages * 850 * 11)
                => fit'.blocks = allBlocks]_vars

\* 920 units on one page (over capacity, within 10%), a quote among them:
\* nothing is removed
C23_Witness ==
    /\ pc = "fit"
    /\ contentPages = 1
    /\ allBlocks = <<Block("p", Text(650)), Block("table", NoText),
                     Block("quote", Text(9))>>
    /\ fit.blocks = allBlocks
    /\ fit.scale = 88

\* the weight of the blocks still present just before removal k
RECURSIVE RemovedBefore(_)
RemovedBefore(k) ==
    IF k = 1 THEN 0
    ELSE PageWeight(<<fit.log[k - 1].block>>) + RemovedBefore(k - 1)

\* C24: each block optimizeContentToFit removes is removed while the
\* blocks still present weigh more than 1.05 * capacity; the running
\* weight it decides on is the summed weight of the blocks not yet
\* removed; totalWeight is the sum over the returned blocks and
\* blockCount their number.
C24_TrimStopsWithinFivePercent ==
    pc = "fit" =>
        /\ \A k \in DOMAIN fit.log :
              /\ (PageWeight(allBlocks) - RemovedBefore(k)) * 100
                    > contentPages * 850 * 105
              /\ fit.log[k].running = PageWeight(allBlocks) - RemovedBefore(k)
        /\ fit.hasMetrics =>
              /\ fit.totalWeight = PageWeight(fit.blocks)
              /\ fit.blockCount = Len(fit.blocks)

\* two quotes go (1070, then 950 units present), the paragraph stays
C24_Witness ==
    /\ pc = "fit"
    /\ contentPages = 1
    /\ allBlocks = <<Block("quote", Text(9)), Block("p", Text(1000)),
                     Block("quote", Text(9))>>
    /\ Len(fit.log) = 2
    /\ fit.log[2].running = 950
    /\ fit.blocks = <<Block("p", Text(1000))>>
    /\ fit.totalWeight = 830

\* C25: when optimizeContentToFit removed a block, the scale it returns
\* is not 1.12: utilization after a trim is at least 0.7.
C25_NoEnlargeAfterTrim ==
    (pc = "fit" /\ fit.log # <<>>) => fit.scale # 112

(***************************************************************************)
(* Properties of getBlockWeight (SpecWeight)                               *)
(***************************************************************************)
\* the weight the table of section 4.6 gives a block
TableWeightIs(block, w) ==
    CASE block = NullBlock -> w = 0
      [] block # NullBlock /\ block.type = "h2" -> w = 100
      [] block # NullBlock /\ block.type = "h3" -> w = 70
      [] block # NullBlock /\ block.type = "p" ->
            LET n == IF block.text.missing THEN 0 ELSE block.text.words
            IN 5 * w >= 4 * n + 150 /\ 5 * (w - 1) < 4 * n + 150
      [] block # NullBlock /\ block.type = "image_prompt" -> w = 320
      [] block # NullBlock /\ block.type = "stat" -> w = 200
      [] block # NullBlock /\ block.type = "key_term" -> w = 180
      [] block # NullBlock /\ block.type = "case_study" -> w = 280
      [] block # NullBlock /\ block.type = "table" -> w = 250
      [] block # NullBlock /\ block.type = "takeaway" -> w = 100
      [] block # NullBlock /\ block.type = "quote" -> w = 120
      [] OTHER -> w = 80

IsParagraph(block) == block # NullBlock /\ block.type = "p"

Issued == rendered.calls

Completed == pc = "rendered" /\ rendered.failAt = 0

\* the positions of the calls of operation op
CallsOf(op) == {i \in DOMAIN Issued : Issued[i].op = op}

\* the positions of the calls tagged with page pageNo and element path
CallsFor(op, pageNo, path) ==
    {i \in DOMAIN Issued : /\ Issued[i].op = op
                           /\ Issued[i].page = pageNo
                           /\ Issued[i].el = path}

\* the paths of the elements of a list and of all their descendants
RECURSIVE PathsOf(_, _)
PathsOf(elements, prefix) ==
    UNION {{Append(prefix, k)}
           \cup PathsOf(IF elements[k].children = None THEN <<>>
                        ELSE elements[k].children[1], Append(prefix, k)) :
              k \in DOMAIN elements}

RECURSIVE ElementAt(_, _)
ElementAt(elements, path) ==
    IF Len(path) = 1 THEN elements[path[1]]
    ELSE ElementAt(elements[path[1]].children[1], Tail(path))

IsPrefix(a, b) == Len(a) <= Len(b) /\ SubSeq(b, 1, Len(a)) = a

Siblings(a, b) ==
    /\ Len(a) = Len(b)
    /\ SubSeq(a, 1, Len(a) - 1) = SubSeq(b, 1, Len(b) - 1)
    /\ a[Len(a)] < b[Len(b)]

ZOf(element) == IF element.z = None THEN 0 ELSE element.z[1]

First(S) == CHOOSE i \in S : \A j \in S : i <= j

\* every two siblings of every page are rendered by ascending z-index
\* (unset is 0), equal z-indexes in list order
SiblingsInZOrder ==
    \A pageNo \in DOMAIN doc.pages :
        LET elements == doc.pages[pageNo].elements
            paths == PathsOf(elements, <<>>)
        IN \A a, b \in paths :
              Siblings(a, b) =>
                 LET sa == CallsFor("saveState", pageNo, a)
                     sb == CallsFor("saveState", pageNo, b)
                 IN /\ sa # {} /\ sb # {}
                    /\ IF ZOf(ElementAt(elements, a))
                            <= ZOf(ElementAt(elements, b))
                       THEN First(sa) < First(sb)
                       ELSE First(sb) < First(sa)

\* C12: among the siblings of one list (the top-level elements of a page,
\* or the children of one Box) the renderer renders in ascending z-index,
\* unset counting as 0 and equal z-indexes keeping their list order; the
\* document's own lists are left as they were.
C12_SiblingsByZIndex ==
    [][(pc = "doc" /\ pc' = "rendered" /\ rendered'.failAt = 0)
          => (doc' = doc /\ SiblingsInZOrder')]_vars

\* top-level z-indexes 3, 1, 2 rendered as 1, 2, 3
C12_Witness ==
    /\ Completed
    /\ Len(doc.pages) = 1
    /\ Len(doc.pages[1].elements) = 3
    /\ doc.pages[1].elements[1].z = Some(3)
    /\ doc.pages[1].elements[2].z = Some(1)
    /\ doc.pages[1].elements[3].z = Some(2)
    /\ First(CallsFor("saveState", 1, <<2>>))
          < First(CallsFor("saveState", 1, <<3>>))
    /\ First(CallsFor("saveState", 1, <<3>>))
          < First(CallsFor("saveState", 1, <<1>>))

\* C13: on a backend that does not throw, beginDocument is called once
\* and first, endDocument once and last, and in between each page, in
\* document order, gets one beginPage ... endPage pair that holds all the
\* calls made for that page and no call of another page; a document
\* without pages gives beginDocument, endDocument.
C13_PageLifecycle ==
    Completed =>
        /\ CallsOf("beginDocument") = {1}
        /\ CallsOf("endDocument") = {Len(Issued)}
        /\ doc.pages = <<>> => Len(Issued) = 2
        /\ Cardinality(CallsOf("beginPage")) = Len(doc.pages)
        /\ Cardinality(CallsOf("endPage")) = Len(doc.pages)
        /\ \A pageNo \in DOMAIN doc.pages :
              LET bps == CallsFor("beginPage", pageNo, <<>>)
                  eps == CallsFor("endPage", pageNo, <<>>)
              IN /\ Cardinality(bps) = 1
                 /\ Cardinality(eps) = 1
                 /\ First(bps) < First(eps)
                 /\ \A i \in DOMAIN Issued :
                       (Issued[i].page = pageNo)
                          <=> (First(bps) <= i /\ i <= First(eps))
        /\ \A i \in 2..(Len(Issued) - 1) : Issued[i].page \in DOMAIN doc.pages
        /\ \A i \in 2..(Len(Issued) - 2) :
              Issued[i].page <= Issued[i + 1].page

\* a completed render of two pages, the second of them with an element
C13_Witness ==
    /\ Completed
    /\ Len(doc.pages) = 2
    /\ doc.pages[2].elements # <<>>
    /\ Cardinality(CallsOf("endPage")) = 2

\* saveState calls minus restoreState calls among the first k calls
Depth(k) ==
    Cardinality({i \in 1..k : Issued[i].op = "saveState"})
    - Cardinality({i \in 1..k : Issued[i].op = "restoreState"})

\* C14: saveState and restoreState are balanced and properly nested: each
\* element of the document (Box children and elements of unknown type
\* included) gets exactly one saveState before, and one restoreState
\* after, all the calls made for it and for its descendants, with no call
\* of another element in between; the depth is never negative and is 0 at
\* every beginPage, endPage and endDocument.
C14_SaveRestoreNesting ==
    pc = "rendered" =>
        /\ \A k \in 0..Len(Issued) : Depth(k) >= 0
        /\ \A i \in DOMAIN Issued :
              Issued[i].op \in {"beginPage", "endPage", "endDocument"}
                 => Depth(i) = 0
        /\ rendered.failAt = 0 =>
              \A pageNo \in DOMAIN doc.pages :
                 \A path \in PathsOf(doc.pages[pageNo].elements, <<>>) :
                    LET svs == CallsFor("saveState", pageNo, path)
                        rss == CallsFor("restoreState", pageNo, path)
                    IN /\ Cardinality(svs) = 1
                       /\ Cardinality(rss) = 1
                       /\ First(svs) < First(rss)
                       /\ Depth(First(rss)) = Depth(First(svs)) - 1
                       /\ \A i \in DOMAIN Issued :
                             (Issued[i].page = pageNo
                              /\ IsPrefix(path, Issued[i].el))
                                <=> (First(svs) <= i /\ i <= First(rss))

\* a Box holding an element of unknown type and a text: three saves and
\* three restores, two levels deep
C14_Witness ==
    /\ Completed
    /\ Len(doc.pages) = 1
    /\ Len(doc.pages[1].elements) = 1
    /\ doc.pages[1].elements[1].type = "box"
    /\ doc.pages[1].elements[1].children # None
    /\ Len(doc.pages[1].elements[1].children[1]) = 2
    /\ doc.pages[1].elements[1].children[1][1].type = "chart"
    /\ doc.pages[1].elements[1].children[1][2].type = "text"
    /\ Cardinality(CallsOf("saveState")) = 3
    /\ Cardinality(CallsOf("restoreState")) = 3
    /\ \E k \in DOMAIN Issued : Depth(k) = 2

\* C15: when a backend call throws during a render, the render fails with
\* the error of that call and no backend call is made after it: the calls
\* are those of the undisturbed render up to and including the throwing
\* one, and no bytes are returned.
C15_ThrowStopsRender ==
    (pc = "rendered" /\ rendered.failAt # 0) =>
        /\ rendered.outcome = "error"
        /\ rendered.error = rendered.failAt
        /\ Len(Issued) = rendered.failAt
        /\ Issued = SubSeq(renderPDFDocument(doc, dpiArg, 0).calls, 1,
                           rendered.failAt)

\* drawText throws for a text inside a Box on the first of two pages: the
\* two open saveState calls are never restored
C15_Witness ==
    /\ pc = "rendered"
    /\ rendered.failAt # 0
    /\ Len(doc.pages) = 2
    /\ Issued[Len(Issued)].op = "drawText"
    /\ Len(Issued[Len(Issued)].el) = 2
    /\ Issued[Len(Issued)].page = 1
    /\ Depth(Len(Issued)) = 2
    /\ rendered.outcome = "error"

\* the full-page rectangle of a page, from the preset table of 4.2
PageRect(page) ==
    IF page.size.preset = Some("Letter")
    THEN [x |-> 0, y |-> 0, width |-> 61200, height |-> 79200]
    ELSE [x |-> 0, y |-> 0, width |-> 59528, height |-> 84189]

\* C26: a page with a backgroundColor or a backgroundImage gets one
\* full-page drawRect (x 0, y 0, the resolved page width and height) right
\* after its beginPage and before the first saveState or draw call of its
\* elements, followed by drawBackgroundImage iff a backgroundImage is set;
\* a page with neither gets no background call.
C26_PageBackground ==
    Completed =>
        \A pageNo \in DOMAIN doc.pages :
            LET page == doc.pages[pageNo]
                bp == First(CallsFor("beginPage", pageNo, <<>>))
                rects == CallsFor("drawRect", pageNo, <<>>)
                images == CallsFor("drawBackgroundImage", pageNo, <<>>)
                firstSave == {i \in DOMAIN Issued :
                                 /\ Issued[i].page = pageNo
                                 /\ Issued[i].el # <<>>}
            IN IF page.backgroundColor # None \/ page.backgroundImage # None
               THEN /\ rects = {bp + 1}
                    /\ Issued[bp + 1].args = PageRect(page)
                    /\ \A i \in firstSave : bp + 1 < i
                    /\ IF page.backgroundImage # None
                       THEN /\ images = {bp + 2}
                            /\ Issued[bp + 2].args = PageRect(page)
                            /\ \A i \in firstSave : bp + 2 < i
                       ELSE images = {}
               ELSE rects = {} /\ images = {}

\* a Letter page with a background image and no colour, holding an
\* element: drawRect, drawBackgroundImage, then the element
C26_Witness ==
    /\ Completed
    /\ Len(doc.pages) = 1
    /\ doc.pages[1].size.preset = Some("Letter")
    /\ doc.pages[1].backgroundColor = None
    /\ doc.pages[1].backgroundImage # None
    /\ doc.pages[1].elements # <<>>
    /\ Issued[3].op = "drawRect"
    /\ Issued[3].args.width = 61200
    /\ Issued[4].op = "drawBackgroundImage"
    /\ Issued[5].op = "saveState"

DrawOps == {"drawText", "drawImage", "drawShape"}

\* the position of the draw call of the element at path, 0 if it has none
DrawCall(pageNo, path) ==
    LET S == {i \in DOMAIN Issued : /\ Issued[i].op \in DrawOps
                                    /\ Issued[i].page = pageNo
                                    /\ Issued[i].el = path}
    IN IF S = {} THEN 0 ELSE First(S)

\* the first position at which two different paths differ (paths of
\* elements with a draw call are never prefixes of each other)
Fork(a, b) ==
    First({d \in 1..Min(Len(a), Len(b)) : a[d] # b[d]})

\* C27 (as claimed): within one page the draw calls of all elements,
\* those nested in Boxes included, come in ascending z-index order, equal
\* z-indexes in document order.
C27_DrawOrderAcrossBoxes ==
    Completed =>
        \A pageNo \in DOMAIN doc.pages :
            LET elements == doc.pages[pageNo].elements
                drawn == {q \in PathsOf(elements, <<>>) :
                             DrawCall(pageNo, q) # 0}
            IN \A a, b \in drawn :
                  (/\ a # b
                   /\ \/ ZOf(ElementAt(elements, a)) < ZOf(ElementAt(elements, b))
                      \/ /\ ZOf(ElementAt(elements, a))
                              = ZOf(ElementAt(elements, b))
                         /\ a[Fork(a, b)] < b[Fork(a, b)])
                  => DrawCall(pageNo, a) < DrawCall(pageNo, b)

\* C27 (amended): within one page the draw calls come in the order of the
\* z-indexes compared among siblings: of two drawn elements, the one
\* whose ancestor (or itself) in the list where their paths part has the
\* lower z-index, or the earlier place at equal z-index, is drawn first;
\* the z-index of an element nested in a Box orders it among that Box's
\* children only.
C27_DrawOrderAmongSiblings ==
    Completed =>
        \A pageNo \in DOMAIN doc.pages :
            LET elements == doc.pages[pageNo].elements
                drawn == {q \in PathsOf(elements, <<>>) :
                             DrawCall(pageNo, q) # 0}
            IN \A a, b \in drawn :
                  a # b =>
                    LET d == Fork(a, b)
                        za == ZOf(ElementAt(elements, SubSeq(a, 1, d)))
                        zb == ZOf(ElementAt(elements, SubSeq(b, 1, d)))
                    IN (za < zb \/ (za = zb /\ a[d] < b[d]))
                          => DrawCall(pageNo, a) < DrawCall(pageNo, b)

\* a text of z-index 3 inside a Box of unset z-index is drawn before the
\* Box's sibling of z-index 1
C27_Witness ==
    /\ Completed
    /\ Len(doc.pages) = 1
    /\ Len(doc.pages[1].elements) = 2
    /\ doc.pages[1].elements[1].type = "box"
    /\ doc.pages[1].elements[1].z = None
    /\ doc.pages[1].elements[1].children
          = Some(<<Element("text", Some(3), None, FALSE, FALSE, FALSE)>>)
    /\ doc.pages[1].elements[2]
          = Element("text", Some(1), None, FALSE, FALSE, FALSE)
    /\ DrawCall(1, <<1, 1>>) # 0
    /\ DrawCall(1, <<1, 1>>) < DrawCall(1, <<2>>)

(***************************************************************************)
(* Properties of resolvePageSize (SpecPageSize)                            *)
(***************************************************************************)
PresetIs(name) == sizeArg.preset = Some(name)

SourcePages == IF source.pages = None THEN <<>> ELSE source.pages[1]

SourceContent(i) ==
    IF SourcePages[i].content = None THEN <<>> ELSE SourcePages[i].content[1]

Present(opt) == opt # None /\ opt[1] # ""

HasElement(page, id) ==
    \E k \in DOMAIN page.elements :
        page.elements[k].id = id /\ page.elements[k].type = "text"

\* the number of blocks of a list the adapter has a mapping for
MappedBlocks(content) ==
    Cardinality({k \in DOMAIN content :
                    /\ content[k] # NullBlock
                    /\ content[k].type \in {"h2", "p", "stat"}})

\* C17: the document built from a source starts with the single cover
\* page, present also without title and subtitle and holding a title Text
\* element iff the source has a title and a subtitle Text element iff it
\* has a subtitle; then comes one page per source page, in source order;
\* the page count is 1 + the number of source pages.
C17_CoverThenSourcePages ==
    pc = "built" =>
        /\ Len(pdfDoc.pages) = 1 + Len(SourcePages)
        /\ pdfDoc.pages[1].id = "page-cover"
        /\ HasElement(pdfDoc.pages[1], "cover-title") <=> Present(source.title)
        /\ HasElement(pdfDoc.pages[1], "cover-subtitle")
              <=> Present(source.subtitle)
        /\ Len(pdfDoc.pages[1].elements) =
              (IF Present(source.title) THEN 1 ELSE 0)
              + (IF Present(source.subtitle) THEN 1 ELSE 0)
        /\ \A i \in DOMAIN SourcePages :
              /\ pdfDoc.pages[i + 1].id = "page-" \o ToString(i)
              /\ HasElement(pdfDoc.pages[i + 1],
                            "page-" \o ToString(i) \o "-title")
                    <=> Present(SourcePages[i].title)
              /\ Len(pdfDoc.pages[i + 1].elements) =
                    (IF Present(SourcePages[i].title) THEN 1 ELSE 0)
                    + MappedBlocks(SourceContent(i))

\* a source with a subtitle but no title and two pages, the second of
\* them titled and holding a paragraph
C17_Witness ==
    /\ pc = "built"
    /\ source.title = None
    /\ source.subtitle # None
    /\ Len(SourcePages) = 2
    /\ SourcePages[1].title = None
    /\ SourcePages[2].title # None
    /\ SourceContent(2) = <<Block("p", Text(81))>>
    /\ Len(pdfDoc.pages) = 3
    /\ Len(pdfDoc.pages[1].elements) = 1
    /\ Len(pdfDoc.pages[3].elements) = 2

\* the elements of a list and all their descendants
RECURSIVE Reachable(_)
Reachable(elements) ==
    IF elements = <<>> THEN <<>>
    ELSE <<Head(elements)>>
         \o (IF Head(elements).children = None THEN <<>>
             ELSE Reachable(Head(elements).children[1]))
         \o Reachable(Tail(elements))

DocElements == Reachable(Flatten([i \in DOMAIN pdfDoc.pages |->
                                    pdfDoc.pages[i].elements]))

\* C18: in a built document the ids of all reachable elements (cover
\* elements, page titles, block elements, the two children of each stat
\* box) are pairwise distinct, the page ids are pairwise distinct, and
\* only Box elements carry children.
C18_DistinctIds ==
    pc = "built" =>
        /\ \A i, j \in DOMAIN DocElements :
              DocElements[i].id = DocElements[j].id => i = j
        /\ \A i, j \in DOMAIN pdfDoc.pages :
              pdfDoc.pages[i].id = pdfDoc.pages[j].id => i = j
        /\ \A i \in DOMAIN DocElements :
              DocElements[i].children # None => DocElements[i].type = "box"

\* a titled cover and two titled pages that each hold a stat block at the
\* same block index: ten elements in all
C18_Witness ==
    /\ pc = "built"
    /\ Present(source.title) /\ Present(source.subtitle)
    /\ Len(SourcePages) = 2
    /\ \A i \in {1, 2} :
          /\ Present(SourcePages[i].title)
          /\ SourceContent(i) = <<Block("stat", NoText)>>
    /\ Len(DocElements) = 10

\* the y positions section 4.5 gives the blocks of a list from block k
\* on, the cursor being at y
RECURSIVE CursorPositions(_, _, _)
CursorPositions(content, k, y) ==
    IF k > Len(content) THEN <<>>
    ELSE IF content[k] = NullBlock
         THEN CursorPositions(content, k + 1, y)
    ELSE IF content[k].type = "h2"
         THEN <<y>> \o CursorPositions(content, k + 1, y + 40)
    ELSE IF content[k].type = "p"
         THEN <<y>> \o CursorPositions(content, k + 1, y + 60)
    ELSE IF content[k].type = "stat"
         THEN <<y>> \o CursorPositions(content, k + 1, y + 100)
    ELSE CursorPositions(content, k + 1, y)

\* the elements of built page i + 1 that come from blocks
BlockElementsOf(i) ==
    LET els == pdfDoc.pages[i + 1].elements
    IN IF Present(SourcePages[i].title) THEN Tail(els) ELSE els

\* C28: on each content page the y position of every block element is
\* 130 plus the advances of the recognized blocks before it on that page
\* (h2 40, p 60, stat 100); null blocks and unrecognized types emit
\* nothing and leave the cursor where it is; every page starts at 130.
C28_CursorPositions ==
    pc = "built" =>
        \A i \in DOMAIN SourcePages :
            [k \in DOMAIN BlockElementsOf(i) |-> BlockElementsOf(i)[k].y]
               = CursorPositions(SourceContent(i), 1, 130)

\* a titled page whose paragraph, null entry and stat give y 130 and 190
C28_Witness ==
    /\ pc = "built"
    /\ Len(SourcePages) = 1
    /\ Present(SourcePages[1].title)
    /\ SourceContent(1) = <<Block("p", Text(81)), NullBlock,
                            Block("stat", NoText)>>
    /\ Len(pdfDoc.pages[2].elements) = 3
    /\ pdfDoc.pages[2].elements[2].y = 130
    /\ pdfDoc.pages[2].elements[3].y = 190
    /\ pdfDoc.pages[2].elements[3].type = "box"

(***************************************************************************)
(* Properties of JsPdfContext (SpecBackend)                                *)
(***************************************************************************)
\* C29: JsPdfContext leaks no drawing state across page boundaries: at
\* the start of a page the fill colour, text colour and font size do not
\* depend on the setFillColor, setFontSize and drawRect calls made for an
\* earlier page, because beginPage resets them.
C29_BeginPageResetsState ==
    [][(jsPdf.doc /\ jsPdf'.pageCount > jsPdf.pageCount) =>
          /\ jsPdf'.fontSize = None
          /\ jsPdf'.textColor = "default"
          /\ jsPdf'.fillColor = "default"]_vars

(***************************************************************************)
(* Properties of the generation lifecycle (Spec)                           *)
(***************************************************************************)

\* the pages of the document shown in step FINISHED: cover, table of
\* contents (if the architecture's budget has one), content pages
ShownPages == 1 + architecture.budget.tocPages + Len(pageData)

\* C2: when a generation run reaches step FINISHED for a requested page
\* count targetPages >= 1, the document shown has exactly targetPages
\* pages: 1 cover page + tocPages + the content page groups.
C2_ExactDocumentLength ==
    [][\A r \in DOMAIN runs :
          (runs[r].phase = "section" /\ runs'[r].phase = "done") =>
              (step' = "FINISHED" /\ ShownPages' = runs[r].budget.targetPages)]_vars

\* the order in which a generation run moves step, and the way back when
\* architecture generation fails
StepOrder ==
    {<<"SETUP", "ARCHITECTING">>, <<"ARCHITECTING", "WRITING">>,
     <<"WRITING", "FINISHED">>, <<"ARCHITECTING", "SETUP">>}

InFlight(r) == runs[r].phase \in {"structure", "section"}

\* run r was in flight when the user returned to SETUP via the header: r
\* set step to ARCHITECTING when it started, and while no run has failed
\* only the header can have brought step back to SETUP since
LeftInFlight(r) ==
    /\ step = "SETUP"
    /\ InFlight(r)
    /\ \A q \in DOMAIN runs : runs[q].phase # "failed"

\* C30: step changes only along SETUP -> ARCHITECTING -> WRITING ->
\* FINISHED, back from ARCHITECTING to SETUP, or to SETUP by the header
\* (which touches no run); handleStart with an empty topic changes nothing;
\* and the completion of a run that was in flight when the user returned to
\* SETUP neither moves step to FINISHED nor overwrites pageData.
C30_GenerationLifecycle ==
    [][/\ step' # step =>
             \/ <<step, step'>> \in StepOrder
             \/ step' = "SETUP" /\ runs' = runs
       /\ (step = "SETUP" /\ ~config.topic /\ runs' = runs /\ config' = config)
             => UNCHANGED <<step, architecture, pageData, layoutMetrics>>
       /\ \A r \in DOMAIN runs :
             (LeftInFlight(r) /\ runs'[r].phase = "done") =>
                 (step' # "FINISHED" /\ pageData' = pageData)]_vars

====
